---- MODULE Spec2Model ----
(***************************************************************************)
(* A model of the kisan-ai backend: the JSON-file stores of                *)
(* tools/farm_manager.py (crops, expenses), the lookup-with-fallback       *)
(* services of tools/info_service.py (weather, market price, soil) and the *)
(* chatbot of tools/ai_service.py.                                         *)
(*                                                                         *)
(* Every backing file is a variable holding what is on disk: missing,      *)
(* unparsable, or a parsed JSON value.  Every handler is one action; it    *)
(* records the call and its inputs in `call` and what it returned or       *)
(* raised in `result`.                                                     *)
(***************************************************************************)
EXTENDS Integers, Sequences, FiniteSets, TLC

VARIABLES crops_file,          \* data/crops.json
          expenses_file,       \* data/expenses.json
          soil_file,           \* data/soil.json
          weather_file,        \* data/weather.json
          prices_file,         \* data/prices.json
          API_KEY,             \* info_service.API_KEY (OPENWEATHER_KEY at import)
          OPENROUTER_API_KEY,  \* environment variable read by get_openrouter_headers
          call,                \* the last call and its inputs
          result,              \* what the last call returned or raised
          requests             \* the add_expense requests in flight, by worker thread

vars == <<crops_file, expenses_file, soil_file, weather_file, prices_file,
          API_KEY, OPENROUTER_API_KEY, call, result, requests>>

(***************************************************************************)
(* Bounds of the model.                                                    *)
(***************************************************************************)
MaxCrops == 3
MaxExpenses == 3
MaxCache == 2

(***************************************************************************)
(* Python values.  A str is a sequence of characters (one-character        *)
(* strings); None is a record of its own; a call returns a value or        *)
(* raises.                                                                 *)
(***************************************************************************)
None == [none |-> TRUE]
Return(v) == [kind |-> "return", value |-> v]
Raise(e) == [kind |-> "raise", exc |-> e]

Upper26 == <<"A","B","C","D","E","F","G","H","I","J","K","L","M",
             "N","O","P","Q","R","S","T","U","V","W","X","Y","Z">>
Lower26 == <<"a","b","c","d","e","f","g","h","i","j","k","l","m",
             "n","o","p","q","r","s","t","u","v","w","x","y","z">>

\* The texts of the chatbot are sequences of words rather than of letters;
\* these are the capitalised words among them.
CapWords == <<"Weather", "Price", "The", "Good", "Clear", "Sky">>
LowWords == <<"weather", "price", "the", "good", "clear", "sky">>

\* str.lower() on one character (or one word of a chatbot text).
LowerChar(c) ==
    IF \E i \in 1..26 : Upper26[i] = c
    THEN Lower26[CHOOSE i \in 1..26 : Upper26[i] = c]
    ELSE IF \E i \in 1..Len(CapWords) : CapWords[i] = c
    THEN LowWords[CHOOSE i \in 1..Len(CapWords) : CapWords[i] = c]
    ELSE c

\* str.lower()
lower(s) == [i \in 1..Len(s) |-> LowerChar(s[i])]

\* str.strip(): leading and trailing blanks removed.
RECURSIVE lstrip(_)
lstrip(s) == IF s # <<>> /\ Head(s) = " " THEN lstrip(Tail(s)) ELSE s
RECURSIVE rstrip(_)
rstrip(s) == IF s # <<>> /\ s[Len(s)] = " " THEN rstrip(SubSeq(s, 1, Len(s) - 1)) ELSE s
strip(s) == rstrip(lstrip(s))

\* Python's `needle in hay` on two str: a contiguous occurrence.
contains(needle, hay) ==
    \E i \in 1..(Len(hay) - Len(needle) + 1) :
        SubSeq(hay, i, i + Len(needle) - 1) = needle

\* dict.get(key, default)
Get(r, key, default) == IF key \in DOMAIN r THEN r[key] ELSE default

\* list.pop(k) leaves the list without its k-th element (1-based here).
RemoveAt(s, k) == SubSeq(s, 1, k - 1) \o SubSeq(s, k + 1, Len(s))

\* list(reversed(s))
Reverse(s) == [i \in 1..Len(s) |-> s[Len(s) + 1 - i]]

(***************************************************************************)
(* What a backing file holds: no file, bytes json.load rejects, or a JSON  *)
(* value of one of the JSON shapes.                                        *)
(***************************************************************************)
Missing == [kind |-> "missing"]
Corrupt == [kind |-> "corrupt"]
JsonNull == [kind |-> "null"]
JsonNum == [kind |-> "num"]
JsonObjOther == [kind |-> "obj"]
JsonList(l) == [kind |-> "list", list |-> l]

(***************************************************************************)
(* Dates.  A date string is its format and its fields: "2024-03-01" is     *)
(* IsoStr(2024, 3, 1), "01 Mar 2024" is DispStr(2024, 3, 1), and any text  *)
(* neither format parses is RawStr.  strptime succeeds only on the format  *)
(* asked for; strftime builds the string of the format asked for.          *)
(***************************************************************************)
IsoStr(y, m, d) == [fmt |-> "iso", y |-> y, m |-> m, d |-> d]
DispStr(y, m, d) == [fmt |-> "disp", y |-> y, m |-> m, d |-> d]
RawStr(t) == [fmt |-> "raw", text |-> t]
EmptyStr == RawStr("")

\* datetime.strptime(s, fmt): the datetime, or None where Python raises.
strptime(s, fmt) ==
    IF s.fmt = fmt THEN [y |-> s.y, m |-> s.m, d |-> s.d] ELSE None

\* dt.strftime("%Y-%m-%d") and dt.strftime("%d %b %Y")
strftime_iso(dt) == IsoStr(dt.y, dt.m, dt.d)
strftime_disp(dt) == DispStr(dt.y, dt.m, dt.d)

\* The dates datetime.now() takes in the model.
NowDates == {[y |-> 2024, m |-> 1, d |-> 15], [y |-> 2024, m |-> 3, d |-> 2]}

(***************************************************************************)
(* CROP MANAGEMENT (tools/farm_manager.py)                                 *)
(***************************************************************************)
CropNames == {<<"R","i","c","e">>, <<"W","h","e","a","t">>}
PlotNames == {<<"A">>}
IndexRange == (0 - 2)..(MaxCrops + 1)

load_crops ==
    IF crops_file.kind = "list" THEN crops_file.list ELSE <<>>

save_crops(crops) == JsonList(crops)

add_crop(crop, plot, now) ==
    LET crops == load_crops
        new_crop == [crop |-> crop, plot |-> plot,
                     sown_date |-> strftime_disp(now),
                     stage |-> "Sown", progress |-> 0]
    IN  /\ Len(crops) < MaxCrops
        /\ crops_file' = save_crops(Append(crops, new_crop))
        /\ result' = Return([status |-> "success", message |-> "Crop added",
                             data |-> new_crop])
        /\ call' = [op |-> "add_crop", crop |-> crop, plot |-> plot]
        /\ UNCHANGED <<expenses_file, soil_file, weather_file, prices_file,
                       API_KEY, OPENROUTER_API_KEY, requests>>

\* A delete_crop without the `index < 0` test: list.pop counts a negative
\* index from the end of the list.
delete_crop_no_negative_test(index) ==
    LET crops == load_crops
        n == Len(crops)
    IN  /\ call' = [op |-> "delete_crop", index |-> index]
        /\ UNCHANGED <<expenses_file, soil_file, weather_file, prices_file,
                       API_KEY, OPENROUTER_API_KEY, requests>>
        /\ IF index >= n
           THEN /\ result' = Return([error |-> "Invalid crop index"])
                /\ UNCHANGED crops_file
           ELSE IF index < 0 - n
           THEN /\ result' = Raise("IndexError")
                /\ UNCHANGED crops_file
           ELSE LET k == IF index < 0 THEN n + index + 1 ELSE index + 1
                IN  /\ crops_file' = save_crops(RemoveAt(crops, k))
                    /\ result' = Return([status |-> "success",
                                         message |-> "Crop deleted",
                                         data |-> crops[k]])

\* A delete_crop that counts the index in the newest-first listing.
delete_crop_by_listing(index) ==
    LET crops == load_crops
        k == Len(crops) - index
    IN  /\ call' = [op |-> "delete_crop", index |-> index]
        /\ UNCHANGED <<expenses_file, soil_file, weather_file, prices_file,
                       API_KEY, OPENROUTER_API_KEY, requests>>
        /\ IF index < 0 \/ index >= Len(crops)
           THEN /\ result' = Return([error |-> "Invalid crop index"])
                /\ UNCHANGED crops_file
           ELSE /\ crops_file' = save_crops(RemoveAt(crops, k))
                /\ result' = Return([status |-> "success",
                                     message |-> "Crop deleted",
                                     data |-> crops[k]])

delete_crop(index) ==
    LET crops == load_crops
    IN  /\ call' = [op |-> "delete_crop", index |-> index]
        /\ UNCHANGED <<expenses_file, soil_file, weather_file, prices_file,
                       API_KEY, OPENROUTER_API_KEY, requests>>
        /\ IF index < 0 \/ index >= Len(crops)
           THEN /\ result' = Return([error |-> "Invalid crop index"])
                /\ UNCHANGED crops_file
           ELSE /\ crops_file' = save_crops(RemoveAt(crops, index + 1))
                /\ result' = Return([status |-> "success",
                                     message |-> "Crop deleted",
                                     data |-> crops[index + 1]])

\* A get_crops that returns the list in stored order.
get_crops_stored_order ==
    /\ call' = [op |-> "get_crops"]
    /\ result' = Return(load_crops)
    /\ UNCHANGED <<crops_file, expenses_file, soil_file, weather_file,
                   prices_file, API_KEY, OPENROUTER_API_KEY, requests>>

get_crops ==
    /\ call' = [op |-> "get_crops"]
    /\ result' = Return(Reverse(load_crops))
    /\ UNCHANGED <<crops_file, expenses_file, soil_file, weather_file,
                   prices_file, API_KEY, OPENROUTER_API_KEY, requests>>

\* The rest of the state while one service is exercised.
NoCall == [op |-> "none"]
NoResult == Return([status |-> "none"])

\* The worker threads that serve expense_add, and all of them idle.
Threads == {1, 2}
Idle == [pc |-> "idle"]
NoRequests == [t \in Threads |-> Idle]

CropFilesInit == {Missing, Corrupt, JsonObjOther, JsonList(<<>>)}

InitCrops ==
    /\ crops_file \in CropFilesInit
    /\ expenses_file = Missing
    /\ soil_file = Missing
    /\ weather_file = Missing
    /\ prices_file = Missing
    /\ API_KEY = None
    /\ OPENROUTER_API_KEY = None
    /\ call = NoCall
    /\ result = NoResult
    /\ requests = NoRequests

NextCrops ==
    \/ \E crop \in CropNames, plot \in PlotNames, now \in NowDates :
          add_crop(crop, plot, now)
    \/ \E index \in IndexRange : delete_crop(index)
    \/ get_crops

SpecCrops == InitCrops /\ [][NextCrops]_vars

\* C1: a delete_crop whose index lies outside [0, len(stored crops)) returns
\* a record with an error field and leaves crops.json as it was.
C1_DeleteOutOfRangeKeepsList ==
    [][(/\ call'.op = "delete_crop"
        /\ (call'.index < 0 \/ call'.index >= Len(load_crops)))
       => (/\ result'.kind = "return"
           /\ "error" \in DOMAIN result'.value
           /\ crops_file' = crops_file)]_vars

\* C1's case: an out-of-range delete_crop has answered on a non-empty list.
C1_Witness ==
    /\ call.op = "delete_crop"
    /\ Len(load_crops) > 0
    /\ (call.index < 0 \/ call.index >= Len(load_crops))
    /\ result.kind = "return"
    /\ "error" \in DOMAIN result.value

\* C15: add_crop only appends its new crop at the end of the stored list,
\* delete_crop leaves the list as it was or without one element, the others
\* in their order, and get_crops returns the stored list backwards, the
\* newest crop first, without changing it.
C15_InsertionOrderListedReversed ==
    [][/\ call'.op = "add_crop"
          => /\ crops_file'.kind = "list"
             /\ crops_file'.list = Append(load_crops, result'.value.data)
             /\ result'.value.data.crop = call'.crop
       /\ call'.op = "delete_crop"
          => \/ crops_file' = crops_file
             \/ /\ crops_file'.kind = "list"
                /\ \E k \in 1..Len(load_crops) :
                       crops_file'.list = RemoveAt(load_crops, k)
       /\ call'.op = "get_crops"
          => /\ crops_file' = crops_file
             /\ result'.kind = "return"
             /\ Len(result'.value) = Len(load_crops)
             /\ \A i \in 1..Len(load_crops) :
                    result'.value[i] = load_crops[Len(load_crops) + 1 - i]
      ]_vars

\* C15's case: get_crops has listed two different crops, the one added last
\* first.
C15_Witness ==
    /\ call.op = "get_crops"
    /\ Len(load_crops) = 2
    /\ load_crops[1] # load_crops[2]
    /\ result.value = <<load_crops[2], load_crops[1]>>

\* C19: delete_crop(i) with 0 <= i < n removes the i-th crop of the stored
\* list of n crops, which is the crop get_crops shows at position n-1-i
\* (counted from 0), and returns it in the data field.
C19_DeleteIndexIsStoredPosition ==
    [][(/\ call'.op = "delete_crop"
        /\ call'.index >= 0
        /\ call'.index < Len(load_crops))
       => (/\ result'.kind = "return"
           /\ result'.value.status = "success"
           /\ result'.value.data = load_crops[call'.index + 1]
           /\ result'.value.data
                  = Reverse(load_crops)[Len(load_crops) - call'.index]
           /\ crops_file'
                  = JsonList(RemoveAt(load_crops, call'.index + 1)))]_vars

\* C19's case: delete_crop(0) has removed the oldest crop, which is not the
\* crop at the head of the newest-first listing.
C19_Witness ==
    /\ call.op = "delete_crop"
    /\ call.index = 0
    /\ result.kind = "return"
    /\ "data" \in DOMAIN result.value
    /\ Len(load_crops) >= 1
    /\ \A i \in 1..Len(load_crops) : load_crops[i] # result.value.data

(***************************************************************************)
(* THE REST BOUNDARY FOR CROPS (fastapi_server.py)                         *)
(*                                                                         *)
(* A request body is the parsed JSON: an object is a record of its keys, a *)
(* value is None (null), [int |-> n] or [str |-> s].  A handler's outcome  *)
(* is a return value (served with status 200), an HTTPException, or any    *)
(* other exception (served by the framework as status 500).                *)
(***************************************************************************)
JInt(n) == [int |-> n]
JStr(s) == [str |-> s]
JsonArrayBody == [array |-> TRUE]

HTTPException(status_code, detail) ==
    [kind |-> "HTTPException", status_code |-> status_code, detail |-> detail]

\* The status line of the response the framework builds from an outcome.
status_code_of(r) ==
    IF r.kind = "return" THEN 200
    ELSE IF r.kind = "HTTPException" THEN r.status_code
    ELSE 500

\* Python's `not v` on a body value.
falsy(v) ==
    \/ v = None
    \/ "str" \in DOMAIN v /\ v.str = <<>>
    \/ "int" \in DOMAIN v /\ v.int = 0

\* A handler that stops before it reaches farm_manager.
answered(op, data, r) ==
    /\ call' = [op |-> op, data |-> data]
    /\ result' = r
    /\ UNCHANGED <<crops_file, expenses_file, soil_file, weather_file,
                   prices_file, API_KEY, OPENROUTER_API_KEY, requests>>

api_get_crops == get_crops

api_add_crop(data, now) ==
    IF data = JsonArrayBody
    THEN answered("api_add_crop", data, Raise("AttributeError"))
    ELSE LET crop == Get(data, "crop", None)
             plot == Get(data, "plot", None)
         IN  IF falsy(crop) \/ falsy(plot)
             THEN answered("api_add_crop", data,
                           HTTPException(400, "crop and plot are required"))
             ELSE add_crop(crop.str, plot.str, now)

api_delete_crop(data) ==
    IF data = JsonArrayBody
    THEN answered("api_delete_crop", data, Raise("AttributeError"))
    ELSE LET index == Get(data, "index", None)
         IN  IF index = None
             THEN answered("api_delete_crop", data,
                           HTTPException(400, "index is required"))
             ELSE IF "int" \notin DOMAIN index
             THEN \* delete_crop: `index < 0` on a str
                  answered("api_delete_crop", data, Raise("TypeError"))
             ELSE delete_crop(index.int)

CropBodyValues == {None, JStr(<<>>)} \cup {JStr(c) : c \in CropNames}
PlotBodyValues == {None} \cup {JStr(p) : p \in PlotNames}
AddBodies ==
    {[crop |-> c, plot |-> p] : c \in CropBodyValues, p \in PlotBodyValues}
        \cup {[crop |-> JStr(c)] : c \in CropNames}
        \cup {[plot |-> JStr(p)] : p \in PlotNames}
        \cup {JsonArrayBody}
DeleteBodies ==
    {[index |-> JInt(i)] : i \in IndexRange}
        \cup {[index |-> None], [index |-> JStr(<<"0">>)],
              [position |-> JInt(0)], JsonArrayBody}

NextRest ==
    \/ \E data \in AddBodies, now \in NowDates : api_add_crop(data, now)
    \/ \E data \in DeleteBodies : api_delete_crop(data)
    \/ api_get_crops

SpecRest == InitCrops /\ [][NextRest]_vars

\* The last request carried invalid input: /crops/add with no crop or no
\* plot in its body, /crops/delete with no index in its body or with an
\* index that is no position of the stored list.
InvalidCropInput ==
    \/ /\ call'.op = "api_add_crop"
       /\ call'.data # JsonArrayBody
       /\ ("crop" \notin DOMAIN call'.data \/ "plot" \notin DOMAIN call'.data)
    \/ /\ call'.op = "api_delete_crop"
       /\ call'.data # JsonArrayBody
       /\ "index" \notin DOMAIN call'.data
    \/ /\ call'.op = "delete_crop"
       /\ (call'.index < 0 \/ call'.index >= Len(load_crops))

\* C12: invalid caller input on /crops/add and /crops/delete is answered
\* with a client-error (4xx) response and leaves crops.json as it was.
C12_InvalidCropInputIsClientError ==
    [][InvalidCropInput
       => (/\ status_code_of(result') \in 400..499
           /\ crops_file' = crops_file)]_vars

(***************************************************************************)
(* EXPENSE MANAGEMENT (tools/farm_manager.py)                              *)
(***************************************************************************)
load_expenses ==
    IF expenses_file.kind = "list" THEN expenses_file.list ELSE <<>>

save_expenses(expenses) == JsonList(expenses)

add_expense(title, amount, type, date) ==
    LET expenses == load_expenses
        dt_iso == strptime(date, "iso")
        dt_disp == strptime(date, "disp")
        ts == IF dt_iso # None THEN strftime_iso(dt_iso)
              ELSE IF dt_disp # None THEN strftime_iso(dt_disp)
              ELSE None
        formatted_date == IF dt_iso # None THEN strftime_disp(dt_iso) ELSE date
        new_transaction == [title |-> title, amount |-> amount, type |-> type,
                            date |-> formatted_date, ts |-> ts]
    IN  /\ Len(expenses) < MaxExpenses
        /\ expenses_file' = save_expenses(Append(expenses, new_transaction))
        /\ result' = Return([status |-> "success", message |-> "Expense added",
                             data |-> new_transaction])
        /\ call' = [op |-> "add_expense", date |-> date, type |-> type,
                    amount |-> amount]
        /\ UNCHANGED <<crops_file, soil_file, weather_file, prices_file,
                       API_KEY, OPENROUTER_API_KEY, requests>>

\* Python's truth value of a ts: None and "" are false.
ts_truthy(ts) == ts # None /\ ts # EmptyStr

\* get_expenses.sort_key
sort_key(x) ==
    LET ts == Get(x, "ts", None)
        d == Get(x, "date", EmptyStr)
    IN  IF ts_truthy(ts) THEN ts
        ELSE IF strptime(d, "disp") # None THEN strftime_iso(strptime(d, "disp"))
        ELSE IF strptime(d, "iso") # None THEN strftime_iso(strptime(d, "iso"))
        ELSE EmptyStr

\* A comparison of sort keys that puts "" above every other string.
str_lt_empty_greatest(a, b) ==
    IF b = EmptyStr THEN a # EmptyStr
    ELSE IF a = EmptyStr THEN FALSE
    ELSE \/ a.y < b.y
         \/ a.y = b.y /\ a.m < b.m
         \/ a.y = b.y /\ a.m = b.m /\ a.d < b.d

\* Python's a < b on two sort keys: "" is below every other string, and two
\* zero-padded YYYY-MM-DD strings compare field by field.
str_lt(a, b) ==
    IF a = EmptyStr THEN b # EmptyStr
    ELSE IF b = EmptyStr THEN FALSE
    ELSE \/ a.y < b.y
         \/ a.y = b.y /\ a.m < b.m
         \/ a.y = b.y /\ a.m = b.m /\ a.d < b.d

\* sorted(s, key=sort_key) ascending: stable, equal keys keep their order.
RECURSIVE sorted_ascending(_)
sorted_ascending(s) ==
    IF s = <<>> THEN <<>>
    ELSE LET rest == sorted_ascending(SubSeq(s, 1, Len(s) - 1))
             x == s[Len(s)]
             pos == Cardinality({i \in 1..Len(rest) :
                                   ~ str_lt(sort_key(x), sort_key(rest[i]))})
         IN  SubSeq(rest, 1, pos) \o <<x>> \o SubSeq(rest, pos + 1, Len(rest))

\* sorted(s, key=sort_key, reverse=True): descending and stable, so records
\* of equal key keep their stored order.
RECURSIVE sorted_reverse(_)
sorted_reverse(s) ==
    IF s = <<>> THEN <<>>
    ELSE LET rest == sorted_reverse(SubSeq(s, 1, Len(s) - 1))
             x == s[Len(s)]
             pos == Cardinality({i \in 1..Len(rest) :
                                   ~ str_lt(sort_key(rest[i]), sort_key(x))})
         IN  SubSeq(rest, 1, pos) \o <<x>> \o SubSeq(rest, pos + 1, Len(rest))

get_expenses ==
    /\ call' = [op |-> "get_expenses"]
    /\ result' = Return(sorted_reverse(load_expenses))
    /\ UNCHANGED <<crops_file, expenses_file, soil_file, weather_file,
                   prices_file, API_KEY, OPENROUTER_API_KEY, requests>>

\* The loop of get_summary: <<total_income, total_expense>> after the records
\* of s, with every record that is not an income counted as an expense.
RECURSIVE summary_totals(_)
summary_totals(s) ==
    IF s = <<>> THEN <<0, 0>>
    ELSE LET t == summary_totals(SubSeq(s, 1, Len(s) - 1))
             e == s[Len(s)]
         IN  IF Get(e, "type", "") = "income"
             THEN <<t[1] + Get(e, "amount", 0), t[2]>>
             ELSE <<t[1], t[2] + Get(e, "amount", 0)>>

\* A get_summary whose profit is taken the wrong way round.
summary_of_swapped(s) ==
    LET t == summary_totals(s)
    IN  [total_income |-> t[1], total_expense |-> t[2], profit |-> t[2] - t[1]]

summary_of(s) ==
    LET t == summary_totals(s)
    IN  [total_income |-> t[1], total_expense |-> t[2], profit |-> t[1] - t[2]]

get_summary ==
    /\ call' = [op |-> "get_summary"]
    /\ result' = Return(summary_of(load_expenses))
    /\ UNCHANGED <<crops_file, expenses_file, soil_file, weather_file,
                   prices_file, API_KEY, OPENROUTER_API_KEY, requests>>

\* A record written before ts was kept: a display date and no ts.
LegacyExpense ==
    [title |-> <<"s","e","e","d">>, amount |-> 40, type |-> "expense",
     date |-> DispStr(2024, 2, 10)]

ExpenseFilesInit ==
    {Missing, Corrupt, JsonObjOther, JsonList(<<>>), JsonList(<<LegacyExpense>>)}

Titles == {<<"u","r","e","a">>}
Amounts == {10, 25}
Types == {"income", "expense", "loan"}
DateInputs == {IsoStr(2024, 1, 1), IsoStr(2024, 3, 1), IsoStr(2024, 2, 1),
               DispStr(2023, 12, 31), RawStr("next week")}

InitExpenses ==
    /\ expenses_file \in ExpenseFilesInit
    /\ crops_file = Missing
    /\ soil_file = Missing
    /\ weather_file = Missing
    /\ prices_file = Missing
    /\ API_KEY = None
    /\ OPENROUTER_API_KEY = None
    /\ call = NoCall
    /\ result = NoResult
    /\ requests = NoRequests

\* The ledger: amounts and types vary, the date is fixed.
NextLedger ==
    \/ \E title \in Titles, amount \in Amounts, type \in Types :
          add_expense(title, amount, type, IsoStr(2024, 1, 1))
    \/ get_summary
    \/ get_expenses

SpecLedger == InitExpenses /\ [][NextLedger]_vars

\* The listing: dates vary, amount and type are fixed.
NextListing ==
    \/ \E title \in Titles, date \in DateInputs :
          add_expense(title, 10, "expense", date)
    \/ get_expenses
    \/ get_summary

SpecListing == InitExpenses /\ [][NextListing]_vars

\* The sum of the amounts of the stored records of one type.
RECURSIVE AmountOver(_, _)
AmountOver(s, idx) ==
    IF idx = {} THEN 0
    ELSE LET i == CHOOSE i \in idx : TRUE
         IN  s[i].amount + AmountOver(s, idx \ {i})
StoredAmount(type) ==
    AmountOver(load_expenses,
               {i \in 1..Len(load_expenses) : load_expenses[i].type = type})

\* C2: when every stored record is an income or an expense, get_summary
\* returns the sum of the stored income amounts, the sum of the stored
\* expense amounts, and their difference as profit, from the list as stored
\* at the call.
C2_SummaryIsSumOfStored ==
    (/\ call.op = "get_summary"
     /\ \A i \in 1..Len(load_expenses) :
            load_expenses[i].type \in {"income", "expense"})
    => /\ result.kind = "return"
       /\ result.value.total_income = StoredAmount("income")
       /\ result.value.total_expense = StoredAmount("expense")
       /\ result.value.profit
              = result.value.total_income - result.value.total_expense

\* C2's case: a summary over a list holding both an income and an expense,
\* with the expenses the larger.
C2_Witness ==
    /\ call.op = "get_summary"
    /\ \A i \in 1..Len(load_expenses) :
           load_expenses[i].type \in {"income", "expense"}
    /\ StoredAmount("income") > 0
    /\ StoredAmount("expense") > StoredAmount("income")
    /\ result.value.profit < 0

\* The calendar day a stored record's date names, as a number that orders
\* the days.
DayOf(x) == x.date.y * 10000 + x.date.m * 100 + x.date.d
Parsable(x) == x.date.fmt \in {"iso", "disp"}
Occurrences(s, x) == Cardinality({i \in 1..Len(s) : s[i] = x})

\* C3: when every stored record has a parsable date, get_expenses returns
\* every stored record exactly once, newest date first.
C3_ListingNewestFirst ==
    (/\ call.op = "get_expenses"
     /\ \A i \in 1..Len(load_expenses) : Parsable(load_expenses[i]))
    => /\ result.kind = "return"
       /\ Len(result.value) = Len(load_expenses)
       /\ \A i \in 1..Len(load_expenses) :
              Occurrences(result.value, load_expenses[i])
                  = Occurrences(load_expenses, load_expenses[i])
       /\ \A i, j \in 1..Len(result.value) :
              i < j => DayOf(result.value[i]) >= DayOf(result.value[j])

\* C3's case: 2024-01-01, 2024-03-01, 2024-02-01 added in that order are
\* listed as 2024-03-01, 2024-02-01, 2024-01-01.
C3_Witness ==
    /\ call.op = "get_expenses"
    /\ Len(load_expenses) = 3
    /\ Get(load_expenses[1], "ts", None) = strftime_iso(strptime(IsoStr(2024, 1, 1), "iso"))
    /\ Get(load_expenses[2], "ts", None) = strftime_iso(strptime(IsoStr(2024, 3, 1), "iso"))
    /\ Get(load_expenses[3], "ts", None) = strftime_iso(strptime(IsoStr(2024, 2, 1), "iso"))
    /\ result.value[1].date = DispStr(2024, 3, 1)
    /\ result.value[2].date = DispStr(2024, 2, 1)
    /\ result.value[3].date = DispStr(2024, 1, 1)

\* A record without ts whose date no format parses: its sort key is "".
Undated(x) == ~ ts_truthy(Get(x, "ts", None)) /\ ~ Parsable(x)

\* C16 as stated: in the get_expenses listing every record whose date cannot
\* be parsed stands before every record that has a parsable date.
C16_UnparsableSortsFirst ==
    call.op = "get_expenses"
    => \A i, j \in 1..Len(result.value) :
           (Undated(result.value[i]) /\ Parsable(result.value[j])) => i < j

\* C16, amended: in the get_expenses listing every record whose date cannot
\* be parsed stands after every record that has a parsable date.
C16_UnparsableSortsLast ==
    call.op = "get_expenses"
    => \A i, j \in 1..Len(result.value) :
           (Undated(result.value[i]) /\ Parsable(result.value[j])) => i > j

\* C16's case: a record with an unparsable date was added first, one with a
\* parsable date after it, and the listing shows the unparsable one last.
C16_Witness ==
    /\ call.op = "get_expenses"
    /\ Len(load_expenses) = 2
    /\ Undated(load_expenses[1])
    /\ Parsable(load_expenses[2])
    /\ result.value = <<load_expenses[2], load_expenses[1]>>

(***************************************************************************)
(* CONCURRENT expense_add REQUESTS (fastapi_server.py, farm_manager.py)    *)
(*                                                                         *)
(* expense_add is a plain `def` endpoint, so the server runs it on worker  *)
(* threads.  A request takes three steps on the file: load_expenses reads  *)
(* it whole, open(path, "w") truncates it, json.dump writes the local      *)
(* list.  Nothing orders the steps of two requests.                        *)
(***************************************************************************)
\* The transaction add_expense builds from its arguments.
new_transaction_of(title, amount, type, date) ==
    LET dt_iso == strptime(date, "iso")
        dt_disp == strptime(date, "disp")
        ts == IF dt_iso # None THEN strftime_iso(dt_iso)
              ELSE IF dt_disp # None THEN strftime_iso(dt_disp)
              ELSE None
        formatted_date == IF dt_iso # None THEN strftime_disp(dt_iso) ELSE date
    IN  [title |-> title, amount |-> amount, type |-> type,
         date |-> formatted_date, ts |-> ts]

\* A json.dump that writes the stored list plus the new record rather than
\* the request's own list.
dumped_list_merged(t) ==
    Append(load_expenses, requests[t].new_transaction)

\* What json.dump(expenses, f) of request t writes: its local list.
dumped_list(t) == requests[t].expenses

\* The other requests that hold the file open for writing.
OtherWriters(t) == {u \in Threads \ {t} : requests[u].pc = "opened"}

\* expenses = load_expenses(); ...; expenses.append(new_transaction)
expense_add_load(t, title, amount, type, date) ==
    LET expenses == load_expenses
        new_transaction == new_transaction_of(title, amount, type, date)
    IN  /\ requests[t].pc = "idle"
        /\ Len(expenses) < MaxExpenses
        /\ requests' = [requests EXCEPT ![t] =
               [pc |-> "loaded", expenses |-> Append(expenses, new_transaction),
                new_transaction |-> new_transaction]]
        /\ call' = [op |-> "add_expense", thread |-> t, step |-> "load"]
        /\ UNCHANGED <<crops_file, expenses_file, soil_file, weather_file,
                       prices_file, API_KEY, OPENROUTER_API_KEY, result>>

\* save_expenses: open(EXPENSES_FILE_PATH, "w") empties the file, and with
\* it whatever another writer has put there since that writer's own open.
expense_add_open(t) ==
    /\ requests[t].pc = "loaded"
    /\ expenses_file' = Corrupt
    /\ requests' = [u \in Threads |->
           IF u = t
           THEN [pc |-> "opened", expenses |-> requests[t].expenses,
                 new_transaction |-> requests[t].new_transaction,
                 clean |-> TRUE]
           ELSE IF u \in OtherWriters(t)
           THEN [requests[u] EXCEPT !.clean = TRUE]
           ELSE requests[u]]
    /\ call' = [op |-> "add_expense", thread |-> t, step |-> "open"]
    /\ UNCHANGED <<crops_file, soil_file, weather_file, prices_file,
                   API_KEY, OPENROUTER_API_KEY, result>>

\* save_expenses: json.dump(expenses, f) and the close, then the return of
\* add_expense.  The bytes go to the start of the file; when another writer
\* has written since this one's open, what is left is this list or, if the
\* other text was the longer, this list followed by the other's tail, which
\* no longer parses.
expense_add_dump(t, overlap) ==
    /\ requests[t].pc = "opened"
    /\ requests[t].clean => overlap = "none"
    /\ expenses_file' = IF overlap = "tail" THEN Corrupt
                        ELSE JsonList(dumped_list(t))
    /\ requests' = [u \in Threads |->
           IF u = t
           THEN [pc |-> "done", expenses |-> requests[t].expenses,
                 new_transaction |-> requests[t].new_transaction,
                 response |-> [status |-> "success",
                               message |-> "Expense added",
                               data |-> requests[t].new_transaction]]
           ELSE IF u \in OtherWriters(t)
           THEN [requests[u] EXCEPT !.clean = FALSE]
           ELSE requests[u]]
    /\ result' = Return([status |-> "success", message |-> "Expense added",
                         data |-> requests[t].new_transaction])
    /\ call' = [op |-> "add_expense", thread |-> t, step |-> "dump",
                overlap |-> overlap]
    /\ UNCHANGED <<crops_file, soil_file, weather_file, prices_file,
                   API_KEY, OPENROUTER_API_KEY>>

\* The response is sent and the worker thread is free again.
expense_add_respond(t) ==
    /\ requests[t].pc = "done"
    /\ requests' = [requests EXCEPT ![t] = Idle]
    /\ call' = [op |-> "add_expense", thread |-> t, step |-> "respond"]
    /\ UNCHANGED <<crops_file, expenses_file, soil_file, weather_file,
                   prices_file, API_KEY, OPENROUTER_API_KEY, result>>

Overlaps == {"none", "tail"}

NextRace ==
    \/ \E t \in Threads, title \in Titles, amount \in Amounts :
          expense_add_load(t, title, amount, "expense", IsoStr(2024, 1, 1))
    \/ \E t \in Threads : expense_add_open(t)
    \/ \E t \in Threads, overlap \in Overlaps : expense_add_dump(t, overlap)
    \/ \E t \in Threads : expense_add_respond(t)

SpecRace == InitExpenses /\ [][NextRace]_vars

\* The stored list holds record x.
Stored(x) == \E i \in 1..Len(load_expenses) : load_expenses[i] = x

\* C11: two concurrent add_expense requests are not ordered against each
\* other and the last writer wins: every completed request reports success,
\* and once a request's write has gone through undisturbed the file holds
\* exactly that request's own list (what it loaded plus its own record),
\* whatever the other request saved in between.
C11_LastWriterWins ==
    \A t \in Threads :
        requests[t].pc = "done"
        => /\ requests[t].response.status = "success"
           /\ (call = [op |-> "add_expense", thread |-> t, step |-> "dump",
                       overlap |-> "none"])
              => expenses_file = JsonList(requests[t].expenses)

\* C11's case: both requests have reported success, with different records,
\* and the stored list is one record longer than the list both loaded and
\* holds only one of the two new records.
C11_Witness ==
    /\ \A t \in Threads : /\ requests[t].pc = "done"
                          /\ requests[t].response.status = "success"
    /\ requests[1].new_transaction # requests[2].new_transaction
    /\ expenses_file.kind = "list"
    /\ Len(requests[1].expenses) = Len(requests[2].expenses)
    /\ Len(load_expenses) = Len(requests[1].expenses)
    /\ Stored(requests[1].new_transaction)
           # Stored(requests[2].new_transaction)

(***************************************************************************)
(* WEATHER SERVICE (tools/info_service.py)                                 *)
(*                                                                         *)
(* A cached record is a non-empty JSON object; its city is optional.       *)
(***************************************************************************)
Pune == <<"P","u","n","e">>
Goa == <<"G","o","a">>
NorthGoa == <<"N"," ","G","o","a">>
Default == <<"d","e","f","a","u","l","t">>

WeatherRecord(city, temp) ==
    [city |-> city, temp |-> temp, humidity |-> "60", weather |-> <<"clear", " ", "sky">>]
WeatherRecords ==
    {WeatherRecord(Pune, "31"), WeatherRecord(Goa, "29"),
     WeatherRecord(NorthGoa, "28"), WeatherRecord(Default, "25"),
     [temp |-> "20", humidity |-> "50", weather |-> <<"haze">>]}

RECURSIVE SeqsUpTo(_, _)
SeqsUpTo(S, n) ==
    IF n = 0 THEN {<<>>}
    ELSE LET shorter == SeqsUpTo(S, n - 1)
         IN  shorter \cup {Append(q, x) : q \in shorter, x \in S}

WeatherFilesInit ==
    {Missing, Corrupt, JsonNull, JsonObjOther}
        \cup {JsonList(l) : l \in SeqsUpTo(WeatherRecords, MaxCache)}

\* The least index of a non-empty set of indices: the record a `for` loop
\* over the list reaches first.
First(S) == CHOOSE i \in S : \A j \in S : i <= j

\* r.get("city", "").strip().lower()
city_of(r) == lower(strip(Get(r, "city", <<>>)))

\* A cache search that tries the substring match before the exact match.
_find_local_weather_contains_first(city) ==
    IF weather_file.kind # "list" THEN None
    ELSE LET data == weather_file.list
             city_l == lower(strip(city))
             exact == {i \in 1..Len(data) : city_of(data[i]) = city_l}
             within == {i \in 1..Len(data) :
                           city_l # <<>> /\ contains(city_l, city_of(data[i]))}
             fallback == {i \in 1..Len(data) :
                             city_of(data[i]) \in {Default, lower(Pune)}}
         IN  IF within # {} THEN data[First(within)]
             ELSE IF exact # {} THEN data[First(exact)]
             ELSE IF fallback # {} THEN data[First(fallback)]
             ELSE None

\* A cache search that, when nothing matches, hands back the first record.
_find_local_weather_first_record(city) ==
    IF weather_file.kind # "list" THEN None
    ELSE LET data == weather_file.list
             city_l == lower(strip(city))
             exact == {i \in 1..Len(data) : city_of(data[i]) = city_l}
             within == {i \in 1..Len(data) :
                           city_l # <<>> /\ contains(city_l, city_of(data[i]))}
         IN  IF exact # {} THEN data[First(exact)]
             ELSE IF within # {} THEN data[First(within)]
             ELSE IF data # <<>> THEN data[1]
             ELSE None

\* No file, a file json.load rejects, and a JSON value whose iteration or
\* whose r.get raises all end in `return None`; an empty object has nothing
\* to loop over and ends there too.
_find_local_weather(city) ==
    IF weather_file.kind # "list" THEN None
    ELSE LET data == weather_file.list
             city_l == lower(strip(city))
             exact == {i \in 1..Len(data) : city_of(data[i]) = city_l}
             within == {i \in 1..Len(data) :
                           city_l # <<>> /\ contains(city_l, city_of(data[i]))}
             fallback == {i \in 1..Len(data) :
                             city_of(data[i]) \in {Default, lower(Pune)}}
         IN  IF exact # {} THEN data[First(exact)]
             ELSE IF within # {} THEN data[First(within)]
             ELSE IF fallback # {} THEN data[First(fallback)]
             ELSE None

\* What requests.get(...).json() gives get_weather: a 200 answer, an answer
\* with another cod, or an exception; NotCalled when the API is not asked.
NotCalled == [kind |-> "not called"]
WeatherLive ==
    {[kind |-> "ok", temp |-> "27", humidity |-> "70", weather |-> <<"light", " ", "rain">>],
     [kind |-> "status", message |-> <<"city", " ", "not", " ", "found">>],
     [kind |-> "exc", text |-> <<"timed", " ", "out">>]}

MissingKeyMessage == <<"Missing", " ", "OPENWEATHER_KEY", " ", "in", " ", ".env">>

get_weather(city, live) ==
    LET local == _find_local_weather(city)
    IN  IF API_KEY = None
        THEN IF local # None THEN local ELSE [error |-> MissingKeyMessage]
        ELSE IF live.kind = "ok"
        THEN [city |-> city, temp |-> live.temp, humidity |-> live.humidity,
              weather |-> live.weather]
        ELSE IF live.kind = "status"
        THEN IF local # None THEN local ELSE [error |-> live.message]
        ELSE IF local # None THEN local ELSE [error |-> live.text]

\* The live answers a get_weather call can meet: none without a credential.
WeatherLiveFor == IF API_KEY = None THEN {NotCalled} ELSE WeatherLive

\* GET /weather
weather(city) ==
    \E live \in WeatherLiveFor :
        /\ call' = [op |-> "weather", city |-> city, live |-> live]
        /\ result' = Return(get_weather(city, live))
        /\ UNCHANGED <<crops_file, expenses_file, soil_file, weather_file,
                       prices_file, API_KEY, OPENROUTER_API_KEY, requests>>

CityInputs ==
    {<<"g","o","a">>, <<" ","G","O","A"," ">>, <<"o","a">>, Pune,
     <<"A","g","r","a">>, <<>>}

Key == [key |-> "set"]

InitWeather ==
    /\ weather_file \in WeatherFilesInit
    /\ API_KEY \in {None, Key}
    /\ crops_file = Missing
    /\ expenses_file = Missing
    /\ soil_file = Missing
    /\ prices_file = Missing
    /\ OPENROUTER_API_KEY = None
    /\ call = NoCall
    /\ result = NoResult
    /\ requests = NoRequests

NextWeather == \E city \in CityInputs : weather(city)

SpecWeather == InitWeather /\ [][NextWeather]_vars

\* The cities of the cached records, as the search compares them.
CachedCities ==
    IF weather_file.kind = "list"
    THEN {lower(strip(Get(weather_file.list[i], "city", <<>>))) :
              i \in 1..Len(weather_file.list)}
    ELSE {}
CachedRecords ==
    IF weather_file.kind = "list"
    THEN {weather_file.list[i] : i \in 1..Len(weather_file.list)}
    ELSE {}
Wanted(city) == lower(strip(city))
ExactHit(city) == Wanted(city) \in CachedCities
SubstringHit(city) ==
    Wanted(city) # <<>> /\ \E c \in CachedCities : contains(Wanted(city), c)
DefaultHit == \E c \in CachedCities : c \in {Default, lower(Pune)}
IsErrorRecord(r) == r.kind = "return" /\ "error" \in DOMAIN r.value

\* C4 as stated: without a credential, a city no cached record names gets an
\* error record.
C4_AbsentCityIsError ==
    (call.op = "weather" /\ API_KEY = None /\ ~ ExactHit(call.city))
    => IsErrorRecord(result)

\* C4 as amended: without a credential, a city the cache search misses (no
\* exact match, no substring match, no default entry) gets an error record,
\* and the call does not raise.
C4_MissedCityIsError ==
    (call.op = "weather" /\ API_KEY = None)
    => /\ result.kind = "return"
       /\ (~ ExactHit(call.city) /\ ~ SubstringHit(call.city) /\ ~ DefaultHit)
              => IsErrorRecord(result)

\* C4's case: a cache with records, none of which the search finds.
C4_Witness ==
    /\ call.op = "weather"
    /\ API_KEY = None
    /\ CachedRecords # {}
    /\ ~ ExactHit(call.city) /\ ~ SubstringHit(call.city) /\ ~ DefaultHit
    /\ IsErrorRecord(result)

\* C5: with a credential the live API is asked first and the cache only when
\* it fails; without one the cache is asked directly.  The cache gives its
\* first exact match, else its first substring match, else its default
\* entry, and the answer is an error record only when all of these miss.
C5_SourceOrder ==
    call.op = "weather" =>
        LET city == call.city
            live == call.live
        IN  /\ (API_KEY = None) = (live = NotCalled)
            /\ live.kind = "ok" =>
                   result.value = [city |-> city, temp |-> live.temp,
                                   humidity |-> live.humidity,
                                   weather |-> live.weather]
            /\ live.kind # "ok" =>
                   /\ ExactHit(city) =>
                          /\ result.value \in CachedRecords
                          /\ city_of(result.value) = Wanted(city)
                   /\ (~ ExactHit(city) /\ SubstringHit(city)) =>
                          /\ result.value \in CachedRecords
                          /\ contains(Wanted(city), city_of(result.value))
                   /\ (~ ExactHit(city) /\ ~ SubstringHit(city) /\ DefaultHit) =>
                          /\ result.value \in CachedRecords
                          /\ city_of(result.value) \in {Default, lower(Pune)}
                   /\ IsErrorRecord(result) =
                          (~ ExactHit(city) /\ ~ SubstringHit(city) /\ ~ DefaultHit)

\* C5's case: the credential is set, the live call failed, and the cache
\* holds both a substring match and, after it, the exact match returned.
C5_Witness ==
    /\ call.op = "weather"
    /\ API_KEY # None
    /\ call.live.kind = "status"
    /\ Wanted(call.city) = lower(Goa)
    /\ weather_file = JsonList(<<WeatherRecord(NorthGoa, "28"), WeatherRecord(Goa, "29")>>)
    /\ result.value = WeatherRecord(Goa, "29")

(***************************************************************************)
(* MARKET PRICE SERVICE (tools/info_service.py)                            *)
(***************************************************************************)
HistoryDays == 7

Rice == <<"R","i","c","e">>
RiceBran == <<"R","i","c","e"," ","B","r","a","n">>
Maharashtra == <<"M","a","h","a","r","a","s","h","t","r","a">>

PriceRecord(crop, state, market) ==
    [crop |-> crop, state |-> state, market |-> market, modal_price |-> "2000",
     min_price |-> "1800", max_price |-> "2200"]
PriceRecords ==
    {PriceRecord(Rice, Goa, "m1"), PriceRecord(Rice, Maharashtra, "m2"),
     PriceRecord(RiceBran, Goa, "m3"), PriceRecord(RiceBran, Maharashtra, "m4")}

PriceFilesInit ==
    {Missing, Corrupt, JsonNull, JsonObjOther}
        \cup {JsonList(l) : l \in SeqsUpTo(PriceRecords, MaxCache)}

\* r.get("crop", "").strip().lower() and r.get("state", "").strip().lower()
crop_of(r) == lower(strip(Get(r, "crop", <<>>)))
state_of(r) == lower(strip(Get(r, "state", <<>>)))

\* The record _find_local_price builds from the cached record r.
local_price(r, crop, state) ==
    [crop |-> Get(r, "crop", crop), state |-> Get(r, "state", state),
     district |-> Get(r, "district", None), market |-> Get(r, "market", None),
     modal_price |-> Get(r, "modal_price", None),
     min_price |-> Get(r, "min_price", None),
     max_price |-> Get(r, "max_price", None),
     arrival_date |-> Get(r, "arrival_date", None),
     variety |-> Get(r, "variety", None), source |-> "local"]

\* A search whose substring pass lacks the `and crop_l` test: an empty
\* commodity is contained in every crop name.
_find_local_price_no_empty_test(crop, state) ==
    IF prices_file.kind # "list" THEN None
    ELSE LET data == prices_file.list
             crop_l == lower(strip(crop))
             state_l == lower(strip(state))
             exact == {i \in 1..Len(data) : crop_of(data[i]) = crop_l}
             cand_state == {i \in exact : state_of(data[i]) = state_l}
             narrowed == IF state_l # <<>> /\ cand_state # {}
                         THEN cand_state ELSE exact
             candidates ==
                 IF narrowed = {}
                 THEN {i \in 1..Len(data) : contains(crop_l, crop_of(data[i]))}
                 ELSE narrowed
         IN  IF candidates # {}
             THEN local_price(data[First(candidates)], crop, state)
             ELSE None

\* As for the weather cache, every failure to read a list of records ends in
\* `return None`.  The candidates are kept as the indices of the records, in
\* list order, so candidates[0] is the least index.
_find_local_price(crop, state) ==
    IF prices_file.kind # "list" THEN None
    ELSE LET data == prices_file.list
             crop_l == lower(strip(crop))
             state_l == lower(strip(state))
             exact == {i \in 1..Len(data) : crop_of(data[i]) = crop_l}
             cand_state == {i \in exact : state_of(data[i]) = state_l}
             narrowed == IF state_l # <<>> /\ cand_state # {}
                         THEN cand_state ELSE exact
             candidates ==
                 IF narrowed = {} /\ crop_l # <<>>
                 THEN {i \in 1..Len(data) : contains(crop_l, crop_of(data[i]))}
                 ELSE narrowed
         IN  IF candidates # {}
             THEN local_price(data[First(candidates)], crop, state)
             ELSE None

\* What requests.get gives get_market_price: a status other than 200, an
\* exception, or a 200 answer with its records.
LiveRecord(modal) ==
    [district |-> "d1", market |-> "live market", modal_price |-> modal,
     min_price |-> "90", max_price |-> "110", arrival_date |-> "today",
     variety |-> "v1"]
\* The API gives modal_price as a string: digits that float() converts, or
\* a text on which float() raises.
NumStr(n) == [digits |-> n]
NotANumber == [text |-> "NR"]
float(x) == x.digits
PriceLive ==
    {[kind |-> "status", status_code |-> "503"],
     [kind |-> "exc", text |-> <<"timed", " ", "out">>],
     [kind |-> "ok", records |-> <<>>],
     [kind |-> "ok", records |-> <<LiveRecord(NumStr(100))>>],
     [kind |-> "ok", records |-> <<LiveRecord(NumStr(105))>>],
     [kind |-> "ok", records |-> <<LiveRecord(NotANumber)>>]}

NoDataMessage ==
    <<"No", " ", "data", " ", "found", " ", "for", " ", "the", " ", "given",
      " ", "commodity", " ", "and", " ", "state">>
StatusMessage(code) ==
    <<"API", " ", "returned", " ", "status", " ", "code", " ", code>>
FloatErrorMessage == <<"could", " ", "not", " ", "convert", " ", "to", " ", "float">>

\* int(float(base_price) * (1 + u)) for u = jitter / 1000 in [-0.1, 0.1].
jittered(base_price, jitter) == (base_price * (1000 + jitter)) \div 1000

\* The seven entries of the synthetic history, oldest first; today is a day
\* number and the i-th entry is dated today - (HistoryDays - i).
price_history(base_price, jitter, today) ==
    [i \in 1..HistoryDays |->
        [date |-> today - (HistoryDays - i),
         price |-> jittered(base_price, jitter[i])]]

get_market_price(commodity, state, live, jitter, today) ==
    LET local == _find_local_price(commodity, state)
    IN  IF live.kind = "status"
        THEN IF local # None THEN local
             ELSE [crop |-> commodity, state |-> state,
                   error |-> StatusMessage(live.status_code)]
        ELSE IF live.kind = "exc"
        THEN IF local # None THEN local
             ELSE [crop |-> commodity, state |-> state, modal_price |-> "N/A",
                   error |-> live.text]
        ELSE IF Len(live.records) > 0
        THEN LET records == live.records[1]
             IN  IF "digits" \notin DOMAIN records.modal_price
                 THEN \* float() raises inside the try
                      IF local # None THEN local
                      ELSE [crop |-> commodity, state |-> state,
                            modal_price |-> "N/A", error |-> FloatErrorMessage]
                 ELSE [crop |-> commodity, state |-> state,
                       district |-> records.district, market |-> records.market,
                       modal_price |-> records.modal_price,
                       min_price |-> records.min_price,
                       max_price |-> records.max_price,
                       arrival_date |-> records.arrival_date,
                       variety |-> records.variety,
                       history |-> price_history(float(records.modal_price), jitter, today)]
        ELSE IF local # None THEN local
             ELSE [crop |-> commodity, state |-> state, error |-> NoDataMessage]

\* GET /price
price(crop, state, jitter, today) ==
    \E live \in PriceLive :
        /\ call' = [op |-> "price", crop |-> crop, state |-> state, live |-> live]
        /\ result' = Return(get_market_price(crop, state, live, jitter, today))
        /\ UNCHANGED <<crops_file, expenses_file, soil_file, weather_file,
                       prices_file, API_KEY, OPENROUTER_API_KEY, requests>>

CommodityInputs == {<<" ","R","I","C","E">>, <<"b","r","a","n">>,
                    <<"M","a","i","z","e">>, <<>>}
StateInputs == {Maharashtra, <<"g","o","a">>, <<>>}
NoJitter == [i \in 1..HistoryDays |-> 0]
Today == 200

InitPrice ==
    /\ prices_file \in PriceFilesInit
    /\ crops_file = Missing
    /\ expenses_file = Missing
    /\ soil_file = Missing
    /\ weather_file = Missing
    /\ API_KEY = None
    /\ OPENROUTER_API_KEY = None
    /\ call = NoCall
    /\ result = NoResult
    /\ requests = NoRequests

NextPrice ==
    \E crop \in CommodityInputs, state \in StateInputs :
        price(crop, state, NoJitter, Today)

SpecPrice == InitPrice /\ [][NextPrice]_vars

PriceCached ==
    IF prices_file.kind = "list"
    THEN {prices_file.list[i] : i \in 1..Len(prices_file.list)}
    ELSE {}
ExactCrop(crop) == {r \in PriceCached : crop_of(r) = Wanted(crop)}
SubstringCrop(crop) ==
    {r \in PriceCached : Wanted(crop) # <<>> /\ contains(Wanted(crop), crop_of(r))}
NoLocalMatch(crop) == ExactCrop(crop) = {} /\ SubstringCrop(crop) = {}
NoLiveRecord(live) == live.kind \in {"status", "exc"} \/ live.records = <<>>
BeginsNoDataFound(msg) ==
    Len(msg) >= 5 /\ SubSeq(msg, 1, 5) = <<"No", " ", "data", " ", "found">>

CommodityCandidates(crop) ==
    IF ExactCrop(crop) # {} THEN ExactCrop(crop) ELSE SubstringCrop(crop)
StateNarrowed(crop, state) ==
    LET inState == {r \in CommodityCandidates(crop) : state_of(r) = Wanted(state)}
    IN  IF Wanted(state) # <<>> /\ inState # {} THEN inState
        ELSE CommodityCandidates(crop)
LiveFailed(live) ==
    \/ live.kind \in {"status", "exc"}
    \/ live.records = <<>>
    \/ "digits" \notin DOMAIN live.records[1].modal_price

\* C7: on a live failure with a cached match, the record returned is one of
\* the commodity candidates (exact before substring), of the requested state
\* whenever a candidate has that state, and is tagged source "local".
C7_LocalFallbackNarrowedByState ==
    (call.op = "price" /\ LiveFailed(call.live) /\ ~ NoLocalMatch(call.crop))
    => /\ result.kind = "return"
       /\ Get(result.value, "source", "") = "local"
       /\ \E r \in StateNarrowed(call.crop, call.state) :
              result.value = local_price(r, call.crop, call.state)

(***************************************************************************)
(* The synthetic price history of a live hit, over the draws of            *)
(* random.uniform(-0.1, 0.1), in thousandths.                              *)
(***************************************************************************)
JitterValues == {0 - 100, 0 - 95, 0, 100}
Jitters ==
    {[i \in 1..HistoryDays |-> IF i = k THEN a ELSE b] :
        k \in 1..HistoryDays, a \in JitterValues, b \in JitterValues}

InitHistory ==
    /\ prices_file \in {Missing, JsonList(<<PriceRecord(Rice, Maharashtra, "m2")>>)}
    /\ crops_file = Missing
    /\ expenses_file = Missing
    /\ soil_file = Missing
    /\ weather_file = Missing
    /\ API_KEY = None
    /\ OPENROUTER_API_KEY = None
    /\ call = NoCall
    /\ result = NoResult
    /\ requests = NoRequests

NextHistory ==
    \E jitter \in Jitters : price(Rice, Maharashtra, jitter, Today)

SpecHistory == InitHistory /\ [][NextHistory]_vars

\* The live API answered with a record whose modal price is a number.
LiveHit ==
    /\ call.op = "price"
    /\ call.live.kind = "ok"
    /\ Len(call.live.records) > 0
    /\ "digits" \in DOMAIN call.live.records[1].modal_price

\* C17: on a live hit with a numeric modal price the history has exactly 7
\* entries, dated day by day up to today, and every price p satisfies
\* 0.9 * modal <= p <= 1.1 * modal.
C17_HistoryWithinTenPercent ==
    LiveHit
    => LET modal == float(call.live.records[1].modal_price)
           history == result.value.history
       IN  /\ Len(history) = 7
           /\ \A i \in 1..7 : history[i].date = Today - (7 - i)
           /\ \A i \in 1..7 : /\ 9 * modal <= 10 * history[i].price
                              /\ 10 * history[i].price <= 11 * modal

(***************************************************************************)
(* SOIL SERVICE (tools/info_service.py)                                    *)
(*                                                                         *)
(* soil.json is meant to hold an object from field names to reports.       *)
(* load_soil_data returns whatever JSON value the file holds.              *)
(***************************************************************************)
JsonObj(o) == [kind |-> "obj", obj |-> o]
JsonStrList(l) == [kind |-> "list", strs |-> l]
EmptyDict == [f \in {} |-> None]

load_soil_data ==
    IF soil_file.kind \in {"missing", "corrupt"} THEN JsonObj(EmptyDict)
    ELSE soil_file

\* Python's `key in soil`: a key of a dict, an element of a list; TypeError
\* on None and on a number, which the caller sees as "raise".
py_in(key, soil) ==
    IF soil.kind = "obj" THEN key \in DOMAIN soil.obj
    ELSE IF soil.kind = "list" THEN \E i \in 1..Len(soil.strs) : soil.strs[i] = key
    ELSE FALSE
in_raises(soil) == soil.kind \notin {"obj", "list"}

\* soil[key] once `key in soil` held: the report of a dict, TypeError on a
\* list (its indices must be integers).
py_getitem(soil, key) ==
    IF soil.kind = "obj" THEN Return(soil.obj[key]) ELSE Raise("TypeError")

NoSoilData == <<"No", " ", "soil", " ", "data">>

get_soil_report(field) ==
    LET soil == load_soil_data
    IN  IF in_raises(soil) THEN Raise("TypeError")
        ELSE IF py_in(field, soil) THEN py_getitem(soil, field)
        ELSE IF py_in("default", soil) THEN py_getitem(soil, "default")
        ELSE Return([error |-> NoSoilData])

\* GET /soil
soil(field) ==
    /\ call' = [op |-> "soil", field |-> field]
    /\ result' = get_soil_report(field)
    /\ UNCHANGED <<crops_file, expenses_file, soil_file, weather_file,
                   prices_file, API_KEY, OPENROUTER_API_KEY, requests>>

\* data[field] = {...}: a new dict entry or the replacement of the old one.
setitem(d, key, value) ==
    [k \in DOMAIN d \cup {key} |-> IF k = key THEN value ELSE d[k]]

add_soil_report(field, ph, nitrogen, phosphorus, potassium, moisture, soil_type, now) ==
    LET data == load_soil_data
        report == [ph |-> ph, nitrogen |-> nitrogen, phosphorus |-> phosphorus,
                   potassium |-> potassium, moisture |-> moisture,
                   soil_type |-> soil_type, last_tested |-> strftime_disp(now)]
    IN  /\ call' = [op |-> "add_soil_report", field |-> field, report |-> report]
        /\ UNCHANGED <<crops_file, expenses_file, weather_file, prices_file,
                       API_KEY, OPENROUTER_API_KEY, requests>>
        /\ IF data.kind = "obj"
           THEN /\ soil_file' = JsonObj(setitem(data.obj, field, report))
                /\ result' = Return([status |-> "success",
                                     message |-> "Soil report saved",
                                     data |-> report])
           ELSE \* item assignment on a list by a str, on None or on a number
                /\ result' = Raise("TypeError")
                /\ UNCHANGED soil_file

Fields == {"default", "north", "south"}
SeedReport(ph) ==
    [ph |-> ph, nitrogen |-> 40, phosphorus |-> 20, potassium |-> 30,
     moisture |-> 35, soil_type |-> "Loam", last_tested |-> DispStr(2023, 11, 5)]
SoilFilesInit ==
    {Missing, Corrupt, JsonNull, JsonNum, JsonStrList(<<>>), JsonStrList(<<"default">>)}
        \cup {JsonObj(m) : m \in UNION {[D -> {SeedReport(6), SeedReport(7)}] :
                                          D \in SUBSET {"default", "north"}}}

InitSoil ==
    /\ soil_file \in SoilFilesInit
    /\ crops_file = Missing
    /\ expenses_file = Missing
    /\ weather_file = Missing
    /\ prices_file = Missing
    /\ API_KEY = None
    /\ OPENROUTER_API_KEY = None
    /\ call = NoCall
    /\ result = NoResult
    /\ requests = NoRequests

NextSoil ==
    \/ \E field \in Fields : soil(field)
    \/ \E field \in Fields, ph \in {5, 8}, now \in NowDates :
          add_soil_report(field, ph, 40, 20, 30, 35, "Clay", now)

SpecSoil == InitSoil /\ [][NextSoil]_vars

\* The reports soil.json tracks, by field: none unless it holds an object.
Tracked == IF soil_file.kind = "obj" THEN DOMAIN soil_file.obj ELSE {}

\* C8: get_soil_report(field) returns the stored report of a tracked field;
\* for an untracked field the report stored under "default" if there is one,
\* and otherwise a record with an error field.
C8_SoilReportOrDefaultOrError ==
    call.op = "soil" =>
        IF call.field \in Tracked
        THEN result = Return(soil_file.obj[call.field])
        ELSE IF "default" \in Tracked
        THEN result = Return(soil_file.obj["default"])
        ELSE IsErrorRecord(result)

\* C14: add_soil_report(field, ...) is an upsert: afterwards soil.json holds
\* a map with the new report under that field and with every other field's
\* report as it was, and get_soil_report(field) returns the new report.
C14_AddSoilReportUpserts ==
    [][call'.op = "add_soil_report"
       => (/\ soil_file'.kind = "obj"
           /\ DOMAIN soil_file'.obj = Tracked \cup {call'.field}
           /\ soil_file'.obj[call'.field] = call'.report
           /\ \A f \in Tracked \ {call'.field} :
                  soil_file'.obj[f] = soil_file.obj[f]
           /\ \A f \in Fields :
                  f = call'.field
                  => (get_soil_report(f))' = Return(call'.report))]_vars

(***************************************************************************)
(* The read operations over backing files that are missing, unparsable or  *)
(* of an unexpected JSON shape.                                            *)
(***************************************************************************)
DegradedFiles == {Missing, Corrupt, JsonNull}

InitDegraded ==
    /\ crops_file \in DegradedFiles
    /\ expenses_file \in DegradedFiles
    /\ soil_file \in DegradedFiles \cup {JsonNum, JsonStrList(<<"default">>)}
    /\ weather_file \in DegradedFiles
    /\ prices_file \in DegradedFiles
    /\ API_KEY \in {None, Key}
    /\ OPENROUTER_API_KEY = None
    /\ call = NoCall
    /\ result = NoResult
    /\ requests = NoRequests

NextDegraded ==
    \/ get_crops
    \/ get_expenses
    \/ get_summary
    \/ soil("north")
    \/ weather(Pune)
    \/ price(Rice, Maharashtra, NoJitter, Today)

SpecDegraded == InitDegraded /\ [][NextDegraded]_vars

ReadOps == {"get_crops", "get_expenses", "get_summary", "soil", "weather", "price"}

\* C9: no read operation raises, whatever the backing files hold: each
\* returns a value.
C9_ReadsNeverRaise ==
    call.op \in ReadOps => result.kind = "return"

(***************************************************************************)
(* CHATBOT (tools/ai_service.py)                                           *)
(*                                                                         *)
(* A prompt, a question and an answer are sequences of words; a keyword    *)
(* test `"weather" in p` is the occurrence of the word.  Words that hold a *)
(* keyword inside them are split ("prices" is "price", "s").               *)
(***************************************************************************)
MockWeather ==
    <<"The", " ", "weather", " ", "looks", " ", "clear", " ", "for", " ", "the",
      " ", "next", " ", "few", " ", "days", ".", " ", "Good", " ", "for", " ",
      "spraying", " ", "pesticides", ".">>
MockPrice ==
    <<"Market", " ", "price", "s", " ", "are", " ", "fluctuating", ".">>
MockSoil ==
    <<"Your", " ", "soil", " ", "nitrogen", " ", "levels", " ", "seem", " ", "low", ".">>
MockFinance ==
    <<"You", " ", "are", " ", "in", " ", "profit", " ", "this", " ", "season", "!">>
MockAdvice ==
    <<"Rotate", " ", "your", " ", "crops", " ", "to", " ", "maintain", " ",
      "soil", " ", "health", ".">>
MockOffline ==
    <<"I", " ", "am", " ", "in", " ", "offline", " ", "mode", ".">>

\* A mock that tests for "price" before "weather".
_mock_response_price_first(prompt) ==
    LET p == lower(prompt)
    IN  IF contains(<<"price">>, p) THEN MockPrice
        ELSE IF contains(<<"weather">>, p) THEN MockWeather
        ELSE MockOffline

_mock_response(prompt) ==
    LET p == lower(prompt)
    IN  IF contains(<<"weather">>, p) THEN MockWeather
        ELSE IF contains(<<"price">>, p) THEN MockPrice
        ELSE IF contains(<<"soil">>, p) THEN MockSoil
        ELSE IF contains(<<"finance">>, p) THEN MockFinance
        ELSE IF contains(<<"advice">>, p) \/ contains(<<"tip">>, p) THEN MockAdvice
        ELSE MockOffline

\* What the language model gives ask_llm: NotCalled without a credential
\* (get_openrouter_headers is empty), a failure (a status other than 200, an
\* error payload, no choices, an exception), or a content.
LLMFailed == [kind |-> "failed"]
ask_llm(prompt, llm) ==
    IF llm.kind = "ok" THEN llm.content ELSE _mock_response(prompt)

detect_intent(question, llm) ==
    LET prompt == <<"Classify", " ", "the", " ", "intent", " ", "of", " ", "this",
                    " ", "question", " ", "into", " ", "one", " ", "word", ":",
                    " ", "weather", " ", "price", " ", "soil", " ", "finance",
                    " ", "crop_", "advice", " ", "general", " ", "Question", ":", " ">>
                  \o question
                  \o <<" ", "ONLY", " ", "return", " ", "one", " ", "word", ".">>
    IN  lower(strip(ask_llm(prompt, llm)))

extract_city(question, llm) ==
    LET prompt == <<"Extract", " ", "the", " ", "city", " ", "name", " ", "from", ":", " ">>
                  \o question
                  \o <<" ", "If", " ", "none", " ", "found", ",", " ", "return",
                       " ", "Pune", ".", " ", "ONLY", " ", "return", " ", "the",
                       " ", "city", ".">>
    IN  strip(ask_llm(prompt, llm))

extract_crop(question, llm) ==
    LET prompt == <<"Extract", " ", "the", " ", "crop", " ", "name", " ", "from", ":", " ">>
                  \o question
                  \o <<" ", "ONLY", " ", "return", " ", "the", " ", "crop", ".",
                       " ", "If", " ", "not", " ", "found", ",", " ", "return",
                       " ", "Tomato", ".">>
    IN  strip(ask_llm(prompt, llm))

\* str.title() on the words of a weather description.
title(s) ==
    [i \in 1..Len(s) |->
        IF \E k \in 1..Len(LowWords) : LowWords[k] = s[i]
        THEN CapWords[CHOOSE k \in 1..Len(LowWords) : LowWords[k] = s[i]]
        ELSE s[i]]

format_weather(city, data) ==
    <<"Weather", " ", "Update", " ">> \o city
        \o <<" ", "Temperature", ":", " ", data.temp, " ", "Humidity", ":", " ",
             data.humidity, " ", "Sky", ":", " ">>
        \o title(data.weather)
        \o <<" ", "Good", " ", "time", " ", "for", " ", "outdoor", " ", "farm",
             " ", "work", ".">>

format_price(data) ==
    LET crop == IF Get(data, "crop", <<>>) # <<>> THEN data.crop ELSE <<"Crop">>
    IN  <<"Market", " ", "Price", " ", "for", " ">> \o crop \o <<" ">>
            \o Get(data, "state", <<"State">>)
            \o <<" ", "Market", ":", " ", Get(data, "market", "N/A"), " ", "Min",
                 ":", " ", Get(data, "min_price", "N/A"), " ", "Max", ":", " ",
                 Get(data, "max_price", "N/A"), " ", "Compare", " ", "local",
                 " ", "mandi", " ", "rates", ".">>

format_soil(data) ==
    <<"Soil", " ", "Report", " ", "Soil", " ", "Type", ":", " ", data.soil_type,
      " ", "pH", ":", " ", ToString(data.ph), " ", "Moisture", ":", " ",
      ToString(data.moisture), " ", "N", ":", " ", ToString(data.nitrogen), " ",
      "P", ":", " ", ToString(data.phosphorus), " ", "K", ":", " ",
      ToString(data.potassium), " ", "Last", " ", "Tested", ":", " ",
      ToString(data.last_tested), " ", "Soil", " ", "looks", " ", "healthy", ".">>

format_finance(data) ==
    LET income == data.total_income
        expense == data.total_expense
        profit == IF data.profit # 0 THEN data.profit ELSE income - expense
    IN  <<"Farm", " ", "Finance", " ", "Summary", " ", "Income", ":", " ",
          ToString(income), " ", "Expenses", ":", " ", ToString(expense), " ",
          "Profit", ":", " ", ToString(profit), " ", "Track", " ", "weekly", ".">>

AdvicePrompt(question) ==
    <<"Give", " ", "practical", " ", "crop", " ", "advice", " ", "for", " ", "a",
      " ", "farmer", ":", " ">> \o question
        \o <<".", " ", "Keep", " ", "it", " ", "short", ".">>
GeneralPrompt(question) ==
    <<"You", " ", "are", " ", "KisanAI", ".", " ", "Explain", " ", "answer", " ",
      "simply", " ", "for", " ", "farmers", ":", " ">> \o question

\* The branch process_query takes on an intent label.
branch_of(intent) ==
    IF contains(<<"weather">>, intent) THEN "weather"
    ELSE IF contains(<<"price">>, intent) THEN "price"
    ELSE IF contains(<<"soil">>, intent) THEN "soil"
    ELSE IF contains(<<"finance">>, intent) THEN "finance"
    ELSE IF contains(<<"crop_", "advice">>, intent) THEN "crop_advice"
    ELSE "general"

\* llm1 answers detect_intent, llm2 the second ask_llm of the branch; wlive
\* and plive are the live weather and price answers.
process_query(question, llm1, llm2, wlive, plive) ==
    LET intent == detect_intent(question, llm1)
        branch == branch_of(intent)
    IN  IF branch = "weather"
        THEN LET city == extract_city(question, llm2)
                 data == get_weather(city, wlive)
             IN  IF "error" \in DOMAIN data
                 THEN Return([answer |-> data.error])
                 ELSE Return([answer |-> format_weather(city, data)])
        ELSE IF branch = "price"
        THEN LET crop == extract_crop(question, llm2)
                 data == get_market_price(crop, Maharashtra, plive, NoJitter, Today)
             IN  IF "error" \in DOMAIN data
                 THEN Return([answer |-> data.error])
                 ELSE Return([answer |-> format_price(data)])
        ELSE IF branch = "soil"
        THEN LET got == get_soil_report("default")
             IN  IF got.kind = "raise" THEN got
                 ELSE IF "error" \in DOMAIN got.value
                 THEN Return([answer |-> got.value.error])
                 ELSE Return([answer |-> format_soil(got.value)])
        ELSE IF branch = "finance"
        THEN Return([answer |-> format_finance(summary_of(load_expenses))])
        ELSE IF branch = "crop_advice"
        THEN Return([answer |-> ask_llm(AdvicePrompt(question), llm2)])
        ELSE Return([answer |-> ask_llm(GeneralPrompt(question), llm2)])

IntentAnswers ==
    {<<"weather">>, <<"price">>, <<"soil">>, <<"finance">>,
     <<"crop_", "advice">>, <<"general">>}
FreeAnswer == <<"Irrigate", " ", "early", ".">>

\* The answers an ask_llm call can meet: none without a credential.
LLMFor(answers) ==
    IF OPENROUTER_API_KEY = None THEN {NotCalled}
    ELSE {LLMFailed} \cup {[kind |-> "ok", content |-> a] : a \in answers}

\* POST /chatbot
chatbot(question) ==
    \E llm1 \in LLMFor(IntentAnswers) :
        LET branch == branch_of(detect_intent(question, llm1))
            second == IF branch = "weather" THEN LLMFor({Pune, Goa})
                      ELSE IF branch = "price" THEN LLMFor({Rice})
                      ELSE IF branch \in {"crop_advice", "general"}
                      THEN LLMFor({FreeAnswer})
                      ELSE {NotCalled}
        IN  \E llm2 \in second :
            \E wlive \in (IF branch = "weather" THEN WeatherLiveFor ELSE {NotCalled}) :
            \E plive \in (IF branch = "price" THEN PriceLive ELSE {NotCalled}) :
                /\ call' = [op |-> "chatbot", question |-> question, llm1 |-> llm1,
                            llm2 |-> llm2, wlive |-> wlive, plive |-> plive]
                /\ result' = process_query(question, llm1, llm2, wlive, plive)
                /\ UNCHANGED <<crops_file, expenses_file, soil_file, weather_file,
                               prices_file, API_KEY, OPENROUTER_API_KEY, requests>>

Questions ==
    {<<"will", " ", "the", " ", "weather", " ", "be", " ", "dry", "?">>,
     <<"rice", " ", "price", " ", "today", "?">>,
     <<"hello">>}

InitChat ==
    /\ OPENROUTER_API_KEY \in {None, Key}
    /\ API_KEY \in {None, Key}
    /\ weather_file \in {Missing, JsonList(<<WeatherRecord(Pune, "31")>>),
                         JsonList(<<WeatherRecord(Goa, "29")>>)}
    /\ soil_file = JsonObj([f \in {"default"} |-> SeedReport(6)])
    /\ expenses_file = JsonList(<<LegacyExpense>>)
    /\ prices_file = JsonList(<<PriceRecord(Rice, Maharashtra, "m2")>>)
    /\ crops_file = Missing
    /\ call = NoCall
    /\ result = NoResult
    /\ requests = NoRequests

NextChat == \E question \in Questions : chatbot(question)

SpecChat == InitChat /\ [][NextChat]_vars

\* C10: without a language-model credential, the answer to a question that
\* contains "weather" contains "clear" or "spraying", whatever the weather
\* credential and the weather cache.
C10_OfflineWeatherAnswer ==
    (/\ call.op = "chatbot"
     /\ OPENROUTER_API_KEY = None
     /\ contains(<<"weather">>, lower(call.question)))
    => /\ result.kind = "return"
       /\ \/ contains(<<"clear">>, result.value.answer)
          \/ contains(<<"spraying">>, result.value.answer)

\* C18: without a language-model credential detect_intent returns a label
\* that contains "weather" for every question, so process_query takes the
\* weather branch: the answer is the weather answer and the price API is
\* not asked.
C18_OfflineAlwaysWeatherBranch ==
    (call.op = "chatbot" /\ OPENROUTER_API_KEY = None)
    => LET intent == detect_intent(call.question, call.llm1)
           city == extract_city(call.question, call.llm2)
           data == get_weather(city, call.wlive)
       IN  /\ call.llm1 = NotCalled
           /\ contains(<<"weather">>, intent)
           /\ branch_of(intent) = "weather"
           /\ call.plive = NotCalled
           /\ result = Return([answer |-> IF "error" \in DOMAIN data
                                          THEN data.error
                                          ELSE format_weather(city, data)])

\* C18's case: a question about the price of rice, asked without any
\* credential and without a usable weather cache, is answered by the
\* weather branch's error.
C18_Witness ==
    /\ call.op = "chatbot"
    /\ OPENROUTER_API_KEY = None
    /\ contains(<<"price">>, call.question)
    /\ ~ contains(<<"weather">>, call.question)
    /\ branch_of(detect_intent(call.question, call.llm1)) = "weather"
    /\ result = Return([answer |-> MissingKeyMessage])

(***************************************************************************)
(* THE MCP SERVER (mcp_server.py)                                          *)
(*                                                                         *)
(* handle_call_tool runs the tool inside try/except and answers with a     *)
(* list holding one TextContent.  The argument map is a record of the keys *)
(* an agent sent, with values None, [int |-> n] or [str |-> s].  The       *)
(* server runs without credentials here, so no weather or language-model   *)
(* request is made.                                                        *)
(***************************************************************************)
TextContent(text) == [type |-> "text", text |-> text]

\* json.dumps(v, indent=2): the JSON text of v.  Every value a tool returns
\* here is built of dicts, lists, strings, numbers and None, so the text
\* exists; it is kept as the value it spells.
json_dumps(v) == [json |-> v]

\* str(e) of an exception: exceptions are known by their text.
str(e) == e

KnownTools ==
    {"get_weather", "get_market_price", "get_soil_report", "add_expense",
     "get_expenses", "get_financial_summary", "get_crops", "add_crop",
     "delete_crop", "ask_farming_question"}

\* What the body of the try leaves: the value assigned to `result` or the
\* exception raised, and the files as the tool leaves them.
Outcome(o, crops, expenses) ==
    [outcome |-> o, crops |-> crops, expenses |-> expenses]
Reads(o) == Outcome(o, crops_file, expenses_file)

tool_get_weather(arguments) ==
    LET city == Get(arguments, "city", JStr(Pune))
    IN  IF city = None THEN Reads(Return(get_weather(<<>>, NotCalled)))
        ELSE IF "str" \in DOMAIN city
        THEN Reads(Return(get_weather(city.str, NotCalled)))
        ELSE \* (city or "").strip() raises inside _find_local_weather
             Reads(Return([error |-> MissingKeyMessage]))

tool_get_market_price(arguments, plive) ==
    LET crop == Get(arguments, "crop", None)
        state == Get(arguments, "state", JStr(Maharashtra))
    IN  Reads(Return(get_market_price(crop.str, state.str, plive,
                                      NoJitter, Today)))

tool_get_soil_report(arguments) ==
    LET field == Get(arguments, "field", JStr("default"))
    IN  Reads(get_soil_report(field.str))

tool_add_expense(arguments) ==
    LET title_arg == Get(arguments, "title", None)
        amount == Get(arguments, "amount", None)
        expense_type == Get(arguments, "type", None)
        date == Get(arguments, "date", None)
    IN  IF amount = None THEN Reads(Raise("TypeError"))
        ELSE IF "int" \notin DOMAIN amount THEN Reads(Raise("ValueError"))
        ELSE LET new_transaction ==
                     new_transaction_of(title_arg.str, amount.int,
                                        expense_type.str, date.str)
             IN  Outcome(Return([status |-> "success",
                                 message |-> "Expense added",
                                 data |-> new_transaction]),
                         crops_file,
                         save_expenses(Append(load_expenses, new_transaction)))

tool_add_crop(arguments, now) ==
    LET crop == Get(arguments, "crop", None)
        plot == Get(arguments, "plot", None)
        new_crop == [crop |-> IF crop = None THEN None ELSE crop.str,
                     plot |-> IF plot = None THEN None ELSE plot.str,
                     sown_date |-> strftime_disp(now),
                     stage |-> "Sown", progress |-> 0]
    IN  Outcome(Return([status |-> "success", message |-> "Crop added",
                        data |-> new_crop]),
                save_crops(Append(load_crops, new_crop)), expenses_file)

tool_delete_crop(arguments) ==
    LET crop_id == Get(arguments, "crop_id", None)
        crops == load_crops
    IN  IF crop_id = None \/ "int" \notin DOMAIN crop_id
        THEN Reads(Raise("TypeError"))
        ELSE IF crop_id.int < 0 \/ crop_id.int >= Len(crops)
        THEN Reads(Return([error |-> "Invalid crop index"]))
        ELSE Outcome(Return([status |-> "success", message |-> "Crop deleted",
                             data |-> crops[crop_id.int + 1]]),
                     save_crops(RemoveAt(crops, crop_id.int + 1)),
                     expenses_file)

tool_ask_farming_question(arguments, plive) ==
    LET question == Get(arguments, "question", None)
        text == IF question = None THEN <<"None">> ELSE question.str
    IN  Reads(process_query(text, NotCalled, NotCalled, NotCalled, plive))

\* The if/elif chain of handle_call_tool.
try_body(name, arguments, now, plive) ==
    IF name = "get_weather" THEN tool_get_weather(arguments)
    ELSE IF name = "get_market_price"
    THEN tool_get_market_price(arguments, plive)
    ELSE IF name = "get_soil_report" THEN tool_get_soil_report(arguments)
    ELSE IF name = "add_expense" THEN tool_add_expense(arguments)
    ELSE IF name = "get_expenses"
    THEN Reads(Return(sorted_reverse(load_expenses)))
    ELSE IF name = "get_financial_summary"
    THEN Reads(Return(summary_of(load_expenses)))
    ELSE IF name = "get_crops" THEN Reads(Return(Reverse(load_crops)))
    ELSE IF name = "add_crop" THEN tool_add_crop(arguments, now)
    ELSE IF name = "delete_crop" THEN tool_delete_crop(arguments)
    ELSE IF name = "ask_farming_question"
    THEN tool_ask_farming_question(arguments, plive)
    ELSE Reads(Return([error |-> <<"Unknown tool: ", name>>]))

\* A handle_call_tool without its except clause.
handle_call_tool_return_no_except(o) ==
    IF o.kind = "return"
    THEN Return(<<TextContent(json_dumps(o.value))>>)
    ELSE o

\* The return statements of handle_call_tool: of the try and of the except.
handle_call_tool_return(o) ==
    IF o.kind = "return"
    THEN Return(<<TextContent(json_dumps(o.value))>>)
    ELSE Return(<<TextContent(json_dumps([error |-> str(o.exc)]))>>)

handle_call_tool(name, arguments, now, plive) ==
    LET r == try_body(name, arguments, now, plive)
    IN  /\ name = "add_crop" => Len(load_crops) < MaxCrops
        /\ name = "add_expense" => Len(load_expenses) < MaxExpenses
        /\ crops_file' = r.crops
        /\ expenses_file' = r.expenses
        /\ call' = [op |-> "handle_call_tool", name |-> name,
                    arguments |-> arguments, outcome |-> r.outcome]
        /\ result' = handle_call_tool_return(r.outcome)
        /\ UNCHANGED <<soil_file, weather_file, prices_file, API_KEY,
                       OPENROUTER_API_KEY, requests>>

ToolNames == KnownTools \cup {"get_summary", ""}
NoArguments == [k \in {} |-> None]

\* The argument maps an agent sends to a tool: none, the ones the tool's
\* schema describes, and some the schema does not allow.
ArgumentMaps(name) ==
    IF name = "get_weather"
    THEN {NoArguments, [city |-> JStr(Goa)], [city |-> None],
          [city |-> JInt(5)]}
    ELSE IF name = "get_market_price"
    THEN {[crop |-> JStr(Rice)],
          [crop |-> JStr(<<"b","r","a","n">>), state |-> JStr(<<"g","o","a">>)]}
    ELSE IF name = "get_soil_report"
    THEN {NoArguments, [field |-> JStr("north")]}
    ELSE IF name = "add_expense"
    THEN {NoArguments,
          [title |-> JStr(<<"u","r","e","a">>), amount |-> JInt(10),
           type |-> JStr("expense"), date |-> JStr(IsoStr(2024, 1, 1))],
          [title |-> JStr(<<"u","r","e","a">>), amount |-> JStr(<<"x">>),
           type |-> JStr("expense"), date |-> JStr(IsoStr(2024, 1, 1))]}
    ELSE IF name = "add_crop"
    THEN {[crop |-> JStr(Rice)]}
    ELSE IF name = "delete_crop"
    THEN {NoArguments, [crop_id |-> JStr(<<"0">>)], [crop_id |-> JInt(0)],
          [crop_id |-> JInt(1)], [crop_id |-> JInt(0 - 1)], [index |-> JInt(0)]}
    ELSE IF name = "ask_farming_question"
    THEN {NoArguments, [question |-> JStr(<<"hello">>)]}
    ELSE {NoArguments, [city |-> JStr(Pune)]}

McpNow == [y |-> 2024, m |-> 1, d |-> 15]

InitMcp ==
    /\ crops_file = JsonList(<<>>)
    /\ expenses_file = JsonList(<<LegacyExpense>>)
    /\ soil_file \in {JsonNull, JsonObj([f \in {"default"} |-> SeedReport(6)])}
    /\ weather_file = JsonList(<<WeatherRecord(Goa, "29")>>)
    /\ prices_file = JsonList(<<PriceRecord(Rice, Maharashtra, "m2")>>)
    /\ API_KEY = None
    /\ OPENROUTER_API_KEY = None
    /\ call = NoCall
    /\ result = NoResult
    /\ requests = NoRequests

\* The answers of the live price API: for the price tool a timeout, an
\* empty answer or a record; for the chatbot tool a timeout, should the
\* request ever be made.
PriceLiveFor(name) ==
    IF name = "get_market_price"
    THEN {live \in PriceLive :
             live.kind = "exc" \/ (live.kind = "ok" /\ live.records = <<>>)}
         \cup {[kind |-> "ok", records |-> <<LiveRecord(NumStr(100))>>]}
    ELSE IF name = "ask_farming_question"
    THEN {live \in PriceLive : live.kind = "exc"}
    ELSE {NotCalled}

NextMcp ==
    \E name \in ToolNames :
        \E arguments \in ArgumentMaps(name), plive \in PriceLiveFor(name) :
            handle_call_tool(name, arguments, McpNow, plive)

SpecMcp == InitMcp /\ [][NextMcp]_vars

\* C13: handle_call_tool always returns a list of one text payload and never
\* lets an exception through: the payload of a known tool is the serialized
\* value its operation returned, of an unknown tool an error record naming
\* it, and of an operation that raised the record {error: message}.
C13_OneTextPayloadNeverRaises ==
    call.op = "handle_call_tool"
    => /\ result.kind = "return"
       /\ Len(result.value) = 1
       /\ result.value[1].type = "text"
       /\ call.outcome.kind = "raise"
          => result.value[1].text = json_dumps([error |-> call.outcome.exc])
       /\ (call.outcome.kind = "return" /\ call.name \in KnownTools)
          => result.value[1].text = json_dumps(call.outcome.value)
       /\ call.name \notin KnownTools
          => result.value[1].text
                 = json_dumps([error |-> <<"Unknown tool: ", call.name>>])

\* C13's case: the operation of a known tool raised, and the caller got the
\* error as a text payload.
C13_Witness ==
    /\ call.op = "handle_call_tool"
    /\ call.name = "get_soil_report"
    /\ call.outcome.kind = "raise"
    /\ result.kind = "return"
    /\ result.value = <<TextContent(json_dumps([error |-> "TypeError"]))>>

====
